---- MODULE Spec2Model ----
(***************************************************************************)
(* solana-invoke: the checked and unchecked cross-program invocation       *)
(* entry points (invoke/src/lib.rs), the zero-copy instruction stabilizer  *)
(* (invoke/src/instruction_stabilizer.rs) and the triple-transfer test     *)
(* program that drives them (test-program/src/lib.rs).                     *)
(*                                                                         *)
(* The model is the on-chain build (target_os = "solana").  Values that    *)
(* come from the SDK the crate links against (RefCell borrow flags, Vec    *)
(* raw parts, ProgramError conversions, the repr(C) StableInstruction) are *)
(* modelled by what they do at the place the crate uses them.              *)
(***************************************************************************)
EXTENDS Integers, Sequences, FiniteSets, TLC

VARIABLES
    instruction,    \* the caller-owned Instruction: program_id and two Vec headers
    heap,           \* live heap allocations: address -> elements stored there
    account_infos,  \* the caller's &[AccountInfo]: key and the RefCells it shares
    cells,          \* RefCell borrow flags of every account's lamports and data
    balance,        \* lamports of each account as the host keeps them
    successes,      \* number of entry-point calls that returned Ok(())
    prev,           \* the call before `last` (at most one record)
    last            \* the most recent call (at most one record)

vars == <<instruction, heap, account_infos, cells, balance, successes, prev, last>>

(***************************************************************************)
(* Bounds of the exploration.                                              *)
(***************************************************************************)
MaxCalls == 3
MaxReaders == 1

(***************************************************************************)
(* Pubkeys are 32 bytes: four 8-byte words.                                *)
(***************************************************************************)
SystemProgramId == <<0, 0, 0, 0>>
KeyA == <<17, 18, 19, 20>>
KeyB == <<33, 34, 35, 36>>
OtherProgramId == <<49, 50, 51, 52>>
Keys == {KeyA, KeyB}

AccountMeta(pubkey, is_signer, is_writable) ==
    [pubkey |-> pubkey, is_signer |-> is_signer, is_writable |-> is_writable]

AccountInfo(key, cell) == [key |-> key, cell |-> cell]

CellIds == {1, 2}
Fields == {"lamports", "data"}

(***************************************************************************)
(* Vec<T>: pointer, capacity, length.  A Vec that never allocated has      *)
(* capacity 0 and the dangling, well-aligned, non-null pointer.            *)
(***************************************************************************)
AlignOf == [u8 |-> 1, AccountMeta |-> 1]
Dangling(T) == AlignOf[T]
BufferAddr == [AccountMeta |-> 64, u8 |-> 128]

Vec(T, elems, cap) ==
    [ptr |-> IF cap = 0 THEN Dangling(T) ELSE BufferAddr[T],
     cap |-> cap,
     len |-> Len(elems)]

VecAsPtr(v) == v.ptr

\* NonNull::new: None for the null address
NonNullNew(p) == IF p = 0 THEN [some |-> FALSE, ptr |-> 0] ELSE [some |-> TRUE, ptr |-> p]

\* the elements a (ptr, len) pair denotes in a heap
ReadBuf(h, ptr, len) ==
    IF len = 0 THEN [live |-> TRUE, elems |-> <<>>]
    ELSE IF ptr \in DOMAIN h /\ len <= Len(h[ptr])
         THEN [live |-> TRUE, elems |-> SubSeq(h[ptr], 1, len)]
         ELSE [live |-> FALSE, elems |-> <<>>]

\* the Instruction as its owner reads it
InstructionValue(ix, h) ==
    [program_id |-> ix.program_id,
     accounts |-> ReadBuf(h, ix.accounts.ptr, ix.accounts.len),
     data |-> ReadBuf(h, ix.data.ptr, ix.data.len)]

(***************************************************************************)
(* RefCell borrow flag: 0 unused, n > 0 shared borrows, -1 one exclusive   *)
(* borrow.  AccountInfo::try_borrow_* turn a refusal into                  *)
(* ProgramError::AccountBorrowFailed.                                      *)
(***************************************************************************)
TryBorrowMut(flag) ==
    IF flag = 0 THEN [ok |-> TRUE, flag |-> -1] ELSE [ok |-> FALSE, flag |-> flag]

TryBorrow(flag) ==
    IF flag >= 0 THEN [ok |-> TRUE, flag |-> flag + 1] ELSE [ok |-> FALSE, flag |-> flag]

\* a guard leaked instead of dropped
DropGuardLeaked(flag) == flag

\* `let _ = <guard>;` binds nothing: the Ref / RefMut temporary is dropped at
\* the end of the statement and gives its borrow back.
DropGuard(flag) == IF flag < 0 THEN 0 ELSE flag - 1

(***************************************************************************)
(* ProgramError, and the u64 <-> ProgramError conversions behind           *)
(* `result.into()`.  A u64 is kept as its two 32-bit halves; builtin       *)
(* errors are n << 32, everything else is Custom(error as u32).            *)
(***************************************************************************)
U64(hi, lo) == [hi |-> hi, lo |-> lo]
SUCCESS == U64(0, 0)
BuiltinErrors == 2..26

NoError == [kind |-> "None", n |-> 0]
Custom(n) == [kind |-> "Custom", n |-> n]
Builtin(n) == [kind |-> "Builtin", n |-> n]
AccountBorrowFailed == Builtin(12)

Ok == [ok |-> TRUE, err |-> NoError]
Err(e) == [ok |-> FALSE, err |-> e]

ProgramErrorFromU64(error) ==
    IF error.lo = 0 /\ error.hi = 1 THEN Custom(0)
    ELSE IF error.lo = 0 /\ error.hi \in BuiltinErrors THEN Builtin(error.hi)
    ELSE Custom(error.lo)

U64FromProgramError(e) ==
    IF e.kind = "Builtin" THEN U64(e.n, 0)
    ELSE IF e.n = 0 THEN U64(1, 0)
    ELSE U64(0, e.n)

\* every nonzero code passed through as success
MatchResultAllOk(result) == Ok

\* match result { SUCCESS => Ok(()), _ => Err(result.into()) }
MatchResult(result) ==
    IF result = SUCCESS THEN Ok ELSE Err(ProgramErrorFromU64(result))

(***************************************************************************)
(* The aliasing check of invoke_signed.                                    *)
(***************************************************************************)
\* one `let _ = account_info.try_borrow_*()?;` statement on one RefCell
ProbeStatement(cs, c, f, mutable) ==
    LET got == IF mutable THEN TryBorrowMut(cs[c][f]) ELSE TryBorrow(cs[c][f])
    IN  IF got.ok
        THEN [ok |-> TRUE, cells |-> [cs EXCEPT ![c][f] = DropGuard(got.flag)]]
        ELSE [ok |-> FALSE, cells |-> cs]

\* both branches probing for exclusive access
ProbeAccountAlwaysMut(account_meta, account_info, cs) ==
    LET l == ProbeStatement(cs, account_info.cell, "lamports", TRUE)
    IN  IF ~l.ok THEN l
        ELSE ProbeStatement(l.cells, account_info.cell, "data", TRUE)

\* the body of `if account_meta.pubkey == *account_info.key`
ProbeAccount(account_meta, account_info, cs) ==
    LET l == ProbeStatement(cs, account_info.cell, "lamports", account_meta.is_writable)
    IN  IF ~l.ok THEN l
        ELSE ProbeStatement(l.cells, account_info.cell, "data", account_meta.is_writable)

\* the inner loop without its `break`
RECURSIVE ScanInfosNoBreak(_, _, _, _, _)
ScanInfosNoBreak(metas, i, infos, j, st) ==
    IF j > Len(infos) THEN st
    ELSE IF metas[i].pubkey = infos[j].key
    THEN LET p == ProbeAccount(metas[i], infos[j], st.cells)
             logged == Append(st.probes, [meta |-> i, info |-> j, borrows |-> st.cells])
         IN  IF ~p.ok
             THEN [ok |-> FALSE, cells |-> p.cells, probes |-> logged]
             ELSE ScanInfosNoBreak(metas, i, infos, j + 1,
                                   [ok |-> TRUE, cells |-> p.cells, probes |-> logged])
    ELSE ScanInfosNoBreak(metas, i, infos, j + 1, st)

\* for account_info in account_infos.iter() { if ... { probe; break; } }
RECURSIVE ScanInfos(_, _, _, _, _)
ScanInfos(metas, i, infos, j, st) ==
    IF j > Len(infos) THEN st
    ELSE IF metas[i].pubkey = infos[j].key
    THEN LET p == ProbeAccount(metas[i], infos[j], st.cells)
         IN  [ok |-> p.ok, cells |-> p.cells,
              probes |-> Append(st.probes, [meta |-> i, info |-> j, borrows |-> st.cells])]
    ELSE ScanInfos(metas, i, infos, j + 1, st)

\* for account_meta in instruction.accounts.iter() { ... ? ... }
RECURSIVE CheckMetas(_, _, _, _)
CheckMetas(metas, i, infos, st) ==
    IF i > Len(metas) THEN st
    ELSE LET r == ScanInfos(metas, i, infos, 1, st)
         IN  IF ~r.ok THEN r ELSE CheckMetas(metas, i + 1, infos, r)

(***************************************************************************)
(* The stabilizer: StableVec headers over the Instruction's own buffers,   *)
(* wrapped so that dropping the view frees nothing.                        *)
(***************************************************************************)
\* capacity and length written to each other's field
StableVecSwapped(ptr, cap, len) == [ptr |-> ptr, cap |-> len, len |-> cap]

\* #[repr(C)] struct StableVec<T> { ptr, cap, len, _marker }
StableVec(ptr, cap, len) == [ptr |-> ptr, cap |-> cap, len |-> len]

stabilize_instruction(ix) ==
    LET dptr == NonNullNew(VecAsPtr(ix.data))
        aptr == NonNullNew(VecAsPtr(ix.accounts))
    IN  IF ~dptr.some \/ ~aptr.some
        THEN [panicked |-> TRUE,
              stabilized_instruction |->
                  [accounts |-> StableVec(0, 0, 0), data |-> StableVec(0, 0, 0),
                   program_id |-> ix.program_id]]
        ELSE [panicked |-> FALSE,
              stabilized_instruction |->
                  [accounts |-> StableVec(aptr.ptr, ix.accounts.cap, ix.accounts.len),
                   data |-> StableVec(dptr.ptr, ix.data.cap, ix.data.len),
                   program_id |-> ix.program_id]]

\* the target identity laid out ahead of the two views
StableInstructionWordsIdFirst(si) ==
    si.program_id
    \o <<si.accounts.ptr, si.accounts.cap, si.accounts.len>>
    \o <<si.data.ptr, si.data.cap, si.data.len>>

\* the 8-byte words of the repr(C) StableInstruction { accounts, data, program_id }
StableInstructionWords(si) ==
    <<si.accounts.ptr, si.accounts.cap, si.accounts.len>>
    \o <<si.data.ptr, si.data.cap, si.data.len>>
    \o si.program_id

\* InstructionStabilizer::instruction_addr: the memory the host reads there
instruction_addr(stabilizer) == StableInstructionWords(stabilizer.stabilized_instruction)

\* the view dropped as an owning value: its buffers are freed
DropStabilizerFreeing(stabilizer, h) ==
    LET si == stabilizer.stabilized_instruction
        freed == (IF si.accounts.cap > 0 THEN {si.accounts.ptr} ELSE {})
                 \cup (IF si.data.cap > 0 THEN {si.data.ptr} ELSE {})
    IN  [a \in (DOMAIN h) \ freed |-> h[a]]

\* ManuallyDrop<StableInstruction>: the end of the stabilizer's scope frees nothing
DropStabilizer(stabilizer, h) == h

(***************************************************************************)
(* The host side of sol_invoke_signed_rust.  It reads the instruction      *)
(* through the address it was given; on SUCCESS the invoked instruction    *)
(* has run once, on any other code it has had no effect.                   *)
(***************************************************************************)
TransferLamports == 1
TransferData == <<2, 0, 0, 0, TransferLamports, 0, 0, 0, 0, 0, 0, 0>>

HostView(words, h) ==
    [program_id |-> SubSeq(words, 7, 10),
     accounts |-> ReadBuf(h, words[1], words[3]),
     data |-> ReadBuf(h, words[4], words[6])]

IsTransfer(view) ==
    /\ view.program_id = SystemProgramId
    /\ view.accounts.live /\ view.data.live
    /\ view.data.elems = TransferData
    /\ Len(view.accounts.elems) = 2
    /\ view.accounts.elems[1].is_signer /\ view.accounts.elems[1].is_writable
    /\ view.accounts.elems[2].is_writable
    /\ view.accounts.elems[1].pubkey # view.accounts.elems[2].pubkey

HostExecute(bal, view, code) ==
    IF code = SUCCESS /\ IsTransfer(view)
    THEN LET from == view.accounts.elems[1].pubkey
             to == view.accounts.elems[2].pubkey
         IN  [bal EXCEPT ![from] = @ - TransferLamports, ![to] = @ + TransferLamports]
    ELSE bal

BoundaryCall(words, si, infos, seeds, cs, code) ==
    [instruction |-> words,
     stabilized |-> si,
     account_infos |-> infos,
     account_infos_len |-> Len(infos),
     signers_seeds |-> seeds,
     signers_seeds_len |-> Len(seeds),
     borrows |-> cs,
     code |-> code]

Panicked == [ok |-> FALSE, err |-> [kind |-> "Panic", n |-> 0]]

\* the syscall issued a second time
invoke_signed_unchecked_twice(ix, infos, seeds, cs, h, bal, code) ==
    LET stabilizer == stabilize_instruction(ix)
        words == instruction_addr(stabilizer)
        call == BoundaryCall(words, stabilizer.stabilized_instruction, infos, seeds, cs, code)
        once == HostExecute(bal, HostView(words, h), code)
    IN  [result |-> MatchResult(code),
         boundary |-> <<call, call>>,
         cells |-> cs,
         heap |-> DropStabilizer(stabilizer, h),
         balance |-> HostExecute(once, HostView(words, h), code),
         probes |-> <<>>]

invoke_signed_unchecked(ix, infos, seeds, cs, h, bal, code) ==
    LET stabilizer == stabilize_instruction(ix)
        words == instruction_addr(stabilizer)
    IN  IF stabilizer.panicked
        THEN [result |-> Panicked, boundary |-> <<>>, cells |-> cs, heap |-> h,
              balance |-> bal, probes |-> <<>>]
        ELSE [result |-> MatchResult(code),
              boundary |-> <<BoundaryCall(words, stabilizer.stabilized_instruction,
                                          infos, seeds, cs, code)>>,
              cells |-> cs,
              heap |-> DropStabilizer(stabilizer, h),
              balance |-> HostExecute(bal, HostView(words, h), code),
              probes |-> <<>>]

\* the check left out
invoke_signed_without_check(ix, infos, seeds, cs, h, bal, code) ==
    invoke_signed_unchecked(ix, infos, seeds, cs, h, bal, code)

\* the caller's seeds not handed on
invoke_signed_without_seeds(ix, infos, seeds, cs, h, bal, code) ==
    LET metas == ReadBuf(h, ix.accounts.ptr, ix.accounts.len).elems
        chk == CheckMetas(metas, 1, infos, [ok |-> TRUE, cells |-> cs, probes |-> <<>>])
    IN  IF ~chk.ok
        THEN [result |-> Err(AccountBorrowFailed), boundary |-> <<>>, cells |-> chk.cells,
              heap |-> h, balance |-> bal, probes |-> chk.probes]
        ELSE [invoke_signed_unchecked(ix, infos, <<>>, chk.cells, h, bal, code)
                  EXCEPT !.probes = chk.probes]

invoke_signed(ix, infos, seeds, cs, h, bal, code) ==
    LET metas == ReadBuf(h, ix.accounts.ptr, ix.accounts.len).elems
        chk == CheckMetas(metas, 1, infos, [ok |-> TRUE, cells |-> cs, probes |-> <<>>])
    IN  IF ~chk.ok
        THEN [result |-> Err(AccountBorrowFailed), boundary |-> <<>>, cells |-> chk.cells,
              heap |-> h, balance |-> bal, probes |-> chk.probes]
        ELSE [invoke_signed_unchecked(ix, infos, seeds, chk.cells, h, bal, code)
                  EXCEPT !.probes = chk.probes]

invoke(ix, infos, cs, h, bal, code) == invoke_signed(ix, infos, <<>>, cs, h, bal, code)

invoke_unchecked(ix, infos, cs, h, bal, code) ==
    invoke_signed_unchecked(ix, infos, <<>>, cs, h, bal, code)

(***************************************************************************)
(* solana_program::program::invoke, the SDK's own entry point the test     *)
(* program calls first: the same RefCell probes, then one syscall on a     *)
(* StableInstruction built from a clone of the instruction.                *)
(***************************************************************************)
CloneAddr == [AccountMeta |-> 192, u8 |-> 256]

program_invoke(ix, infos, cs, h, bal, code) ==
    LET value == InstructionValue(ix, h)
        metas == value.accounts.elems
        bytes == value.data.elems
        chk == CheckMetas(metas, 1, infos, [ok |-> TRUE, cells |-> cs, probes |-> <<>>])
        aptr == IF Len(metas) = 0 THEN Dangling("AccountMeta") ELSE CloneAddr.AccountMeta
        dptr == IF Len(bytes) = 0 THEN Dangling("u8") ELSE CloneAddr.u8
        si == [accounts |-> StableVec(aptr, Len(metas), Len(metas)),
               data |-> StableVec(dptr, Len(bytes), Len(bytes)),
               program_id |-> ix.program_id]
        during == [a \in {CloneAddr.AccountMeta, CloneAddr.u8} |->
                      IF a = CloneAddr.AccountMeta THEN metas ELSE bytes]
        words == StableInstructionWords(si)
    IN  IF ~chk.ok
        THEN [result |-> Err(AccountBorrowFailed), boundary |-> <<>>, cells |-> chk.cells,
              heap |-> h, balance |-> bal, probes |-> chk.probes]
        ELSE [result |-> MatchResult(code),
              boundary |-> <<BoundaryCall(words, si, infos, <<>>, chk.cells, code)>>,
              cells |-> chk.cells,
              heap |-> h,
              balance |-> HostExecute(bal, HostView(words, during), code),
              probes |-> chk.probes]

(***************************************************************************)
(* Inputs.  A scenario is an Instruction (with the capacities of its two   *)
(* buffers) and the account handles the caller passes with it.             *)
(***************************************************************************)
OriginalBalance == 1000000000

Scenario(program_id, metas, acap, bytes, dcap, infos) ==
    [program_id |-> program_id, metas |-> metas, acap |-> acap,
     bytes |-> bytes, dcap |-> dcap, infos |-> infos]

\* system_instruction::transfer(from, to, 1)
Transfer(from, to, infos) ==
    Scenario(SystemProgramId,
             <<AccountMeta(from, TRUE, TRUE), AccountMeta(to, FALSE, TRUE)>>, 2,
             TransferData, Len(TransferData), infos)

AliasScenarios ==
    { Transfer(KeyA, KeyB, <<AccountInfo(KeyA, 1), AccountInfo(KeyB, 2)>>),
      \* an AccountMeta no handle matches, then two handles for one address,
      \* each with RefCells of its own
      Scenario(OtherProgramId,
               <<AccountMeta(KeyB, FALSE, TRUE), AccountMeta(KeyA, FALSE, TRUE)>>, 2,
               <<>>, 0, <<AccountInfo(KeyA, 1), AccountInfo(KeyA, 2)>>),
      \* two handles for one address sharing their RefCells (a cloned AccountInfo)
      Scenario(OtherProgramId,
               <<AccountMeta(KeyA, FALSE, FALSE), AccountMeta(KeyA, TRUE, TRUE)>>, 2,
               <<7>>, 1, <<AccountInfo(KeyA, 1), AccountInfo(KeyA, 1)>>),
      \* a read-only and a writable account
      Scenario(OtherProgramId,
               <<AccountMeta(KeyA, FALSE, FALSE), AccountMeta(KeyB, TRUE, TRUE)>>, 3,
               <<7>>, 1, <<AccountInfo(KeyA, 1), AccountInfo(KeyB, 2)>>),
      Scenario(OtherProgramId, <<>>, 0, <<>>, 0, <<>>) }

MetaLists ==
    { <<>>,
      <<AccountMeta(KeyA, TRUE, TRUE)>>,
      <<AccountMeta(KeyA, TRUE, TRUE), AccountMeta(KeyB, FALSE, TRUE)>> }
ByteLists == { <<>>, <<7>>, TransferData }

BufferScenarios ==
    { Scenario(pid, metas, Len(metas) + aslack, bytes, Len(bytes) + dslack,
               <<AccountInfo(KeyA, 1), AccountInfo(KeyB, 2)>>) :
        pid \in {SystemProgramId, OtherProgramId}, metas \in MetaLists,
        aslack \in {0, 1}, bytes \in ByteLists, dslack \in {0, 1} }

\* one seed group with one seed; the empty list is what invoke and invoke_unchecked pass
SignerSeeds == { << << <<115>> >> >> }

\* what the host may answer in the aliasing runs, and in the dispatcher runs
HostCodes == { SUCCESS, U64(0, 7) }
ResultCodes ==
    { SUCCESS, U64(0, 1), U64(0, 7), U64(1, 0), U64(2, 0), U64(12, 0),
      U64(1, 5), U64(40, 0) }

InstructionOf(sc) ==
    [program_id |-> sc.program_id,
     accounts |-> Vec("AccountMeta", sc.metas, sc.acap),
     data |-> Vec("u8", sc.bytes, sc.dcap)]

HeapOf(sc) ==
    [a \in (IF sc.acap > 0 THEN {BufferAddr.AccountMeta} ELSE {})
           \cup (IF sc.dcap > 0 THEN {BufferAddr.u8} ELSE {}) |->
        IF a = BufferAddr.AccountMeta THEN sc.metas ELSE sc.bytes]

InitFrom(scenarios) ==
    /\ \E sc \in scenarios :
          /\ instruction = InstructionOf(sc)
          /\ heap = HeapOf(sc)
          /\ account_infos = sc.infos
    /\ cells = [c \in CellIds |-> [lamports |-> 0, data |-> 0]]
    /\ balance = [k \in Keys |-> OriginalBalance]
    /\ successes = 0
    /\ prev = <<>>
    /\ last = <<>>

Init == InitFrom(AliasScenarios)
InitDispatch == InitFrom(BufferScenarios)

(***************************************************************************)
(* The caller.  Between calls it takes and gives back borrows through its  *)
(* handles; a call is recorded with what it saw and what it did.           *)
(***************************************************************************)
NoCallPending == prev = <<>> /\ last = <<>>

OuterBorrowMut ==
    /\ NoCallPending
    /\ \E j \in 1..Len(account_infos), f \in Fields :
          LET got == TryBorrowMut(cells[account_infos[j].cell][f])
          IN  /\ got.ok
              /\ cells' = [cells EXCEPT ![account_infos[j].cell][f] = got.flag]
    /\ UNCHANGED <<instruction, heap, account_infos, balance, successes, prev, last>>

OuterBorrow ==
    /\ NoCallPending
    /\ \E j \in 1..Len(account_infos), f \in Fields :
          LET got == TryBorrow(cells[account_infos[j].cell][f])
          IN  /\ got.ok
              /\ got.flag <= MaxReaders
              /\ cells' = [cells EXCEPT ![account_infos[j].cell][f] = got.flag]
    /\ UNCHANGED <<instruction, heap, account_infos, balance, successes, prev, last>>

OuterRelease ==
    /\ NoCallPending
    /\ \E j \in 1..Len(account_infos), f \in Fields :
          /\ cells[account_infos[j].cell][f] # 0
          /\ cells' = [cells EXCEPT ![account_infos[j].cell][f] = DropGuard(@)]
    /\ UNCHANGED <<instruction, heap, account_infos, balance, successes, prev, last>>

CallRecord(path, seeds, code, out) ==
    [path |-> path, seeds |-> seeds, host |-> code,
     borrowsBefore |-> cells, probes |-> out.probes, boundary |-> out.boundary,
     result |-> out.result, borrowsAfter |-> out.cells]

\* the caller keeps the results of up to two calls before it goes on
Returns(path, seeds, code, out) ==
    /\ successes < MaxCalls
    /\ prev = <<>>
    /\ prev' = last
    /\ last' = <<CallRecord(path, seeds, code, out)>>
    /\ cells' = out.cells
    /\ heap' = out.heap
    /\ balance' = out.balance
    /\ successes' = IF out.result.ok THEN successes + 1 ELSE successes
    /\ UNCHANGED <<instruction, account_infos>>

\* solana_program::program::invoke(&transfer, &accounts[..2])
CallProgramInvoke(codes) ==
    \E code \in codes :
        Returns("stock", <<>>, code,
                program_invoke(instruction, account_infos, cells, heap, balance, code))

CallInvoke(codes) ==
    \E code \in codes :
        Returns("checked", <<>>, code,
                invoke(instruction, account_infos, cells, heap, balance, code))

CallInvokeUnchecked(codes) ==
    \E code \in codes :
        Returns("unchecked", <<>>, code,
                invoke_unchecked(instruction, account_infos, cells, heap, balance, code))

CallInvokeSigned(codes) ==
    \E code \in codes, seeds \in SignerSeeds :
        Returns("checked", seeds, code,
                invoke_signed(instruction, account_infos, seeds, cells, heap, balance, code))

CallInvokeSignedUnchecked(codes) ==
    \E code \in codes, seeds \in SignerSeeds :
        Returns("unchecked", seeds, code,
                invoke_signed_unchecked(instruction, account_infos, seeds, cells, heap,
                                        balance, code))

\* the caller has looked at the results and goes on
CallerContinues ==
    /\ ~NoCallPending
    /\ prev' = <<>>
    /\ last' = <<>>
    /\ UNCHANGED <<instruction, heap, account_infos, cells, balance, successes>>

Next ==
    \/ OuterBorrowMut
    \/ OuterBorrow
    \/ OuterRelease
    \/ CallProgramInvoke(HostCodes)
    \/ CallInvoke(HostCodes)
    \/ CallInvokeUnchecked(HostCodes)
    \/ CallInvokeSigned(HostCodes)
    \/ CallInvokeSignedUnchecked(HostCodes)
    \/ CallerContinues

NextDispatch ==
    \/ CallInvokeUnchecked(ResultCodes)
    \/ CallInvokeSignedUnchecked(ResultCodes)
    \/ CallerContinues

Spec == Init /\ [][Next]_vars
SpecDispatch == InitDispatch /\ [][NextDispatch]_vars

Records == {prev[i] : i \in DOMAIN prev} \cup {last[i] : i \in DOMAIN last}

(***************************************************************************)
(* Vocabulary of the properties.                                           *)
(***************************************************************************)
Metas == InstructionValue(instruction, heap).accounts.elems

\* the first handle, in supplied order, with the AccountMeta's address (0: none)
FirstMatch(meta) ==
    LET hits == {j \in DOMAIN account_infos : account_infos[j].key = meta.pubkey}
    IN  IF hits = {} THEN 0 ELSE CHOOSE j \in hits : \A k \in hits : j <= k

HeldExclusive(cs, info) == cs[info.cell].lamports < 0 \/ cs[info.cell].data < 0
HeldAny(cs, info) == cs[info.cell].lamports # 0 \/ cs[info.cell].data # 0
Conflict(meta, info, cs) ==
    IF meta.is_writable THEN HeldAny(cs, info) ELSE HeldExclusive(cs, info)

PreconditionConflict(r) == r.result = Err(AccountBorrowFailed) /\ r.boundary = <<>>
Dispatched(r) == Len(r.boundary) = 1

Checked == {r \in Records : r.path = "checked"}
Unchecked == {r \in Records : r.path = "unchecked"}

CallArgs(call) ==
    [instruction |-> call.instruction,
     account_infos |-> call.account_infos,
     account_infos_len |-> call.account_infos_len,
     signers_seeds |-> call.signers_seeds,
     signers_seeds_len |-> call.signers_seeds_len,
     code |-> call.code]

\* C1 as stated: in the checked path, a writable AccountMeta whose address
\* equals that of any handle whose lamports or data are exclusively borrowed
\* makes the call return the borrow error without any boundary call.
C1_AnyMatchingHandle ==
    \A r \in Checked :
        (\E i \in DOMAIN Metas, j \in DOMAIN account_infos :
            /\ Metas[i].is_writable
            /\ Metas[i].pubkey = account_infos[j].key
            /\ HeldExclusive(r.borrowsBefore, account_infos[j]))
        => PreconditionConflict(r)

\* C1 amended: in the checked path, a writable AccountMeta whose FIRST handle
\* in supplied order with its address has its lamports or data exclusively
\* borrowed makes the call return the borrow error, and no boundary call is
\* issued for that call.
C1_FirstMatchingHandle ==
    \A r \in Checked :
        (\E i \in DOMAIN Metas :
            /\ Metas[i].is_writable
            /\ FirstMatch(Metas[i]) # 0
            /\ HeldExclusive(r.borrowsBefore, account_infos[FirstMatch(Metas[i])]))
        => PreconditionConflict(r)

C1_Witness ==
    \E r \in Checked :
        /\ PreconditionConflict(r)
        /\ \E i \in DOMAIN Metas :
              /\ Metas[i].is_writable
              /\ FirstMatch(Metas[i]) # 0
              /\ HeldExclusive(r.borrowsBefore, account_infos[FirstMatch(Metas[i])])

\* C2 as stated: the dispatcher returns success iff the boundary call's code
\* is 0, and for every nonzero code the returned error gives back exactly
\* that code.
C2_CodeUnchanged ==
    \A r \in Unchecked : \A k \in DOMAIN r.boundary :
        /\ r.result.ok <=> r.boundary[k].code = SUCCESS
        /\ r.boundary[k].code # SUCCESS
              => U64FromProgramError(r.result.err) = r.boundary[k].code

\* C2 amended: the dispatcher returns success iff the code is 0; for every
\* nonzero code it returns a failure whose code has the same low 32 bits,
\* and the same code altogether when the code is below 2^32.
C2_Low32Unchanged ==
    \A r \in Unchecked : \A k \in DOMAIN r.boundary :
        /\ r.result.ok <=> r.boundary[k].code = SUCCESS
        /\ r.boundary[k].code # SUCCESS
              => /\ ~r.result.ok
                 /\ U64FromProgramError(r.result.err).lo = r.boundary[k].code.lo
                 /\ r.boundary[k].code.hi = 0
                       => U64FromProgramError(r.result.err) = r.boundary[k].code

C2_Witness ==
    /\ \E r \in Unchecked : Dispatched(r) /\ r.boundary[1].code = U64(0, 7) /\ ~r.result.ok
    /\ \E r \in Unchecked : Dispatched(r) /\ r.boundary[1].code = U64(1, 5) /\ ~r.result.ok

\* no handle with the address of an AccountMeta has a borrow outstanding that
\* conflicts with the access the AccountMeta asks for
NoConflictingBorrow(cs) ==
    \A i \in DOMAIN Metas, j \in DOMAIN account_infos :
        Metas[i].pubkey = account_infos[j].key => ~Conflict(Metas[i], account_infos[j], cs)

\* C3: for the same instruction, handles, signer seeds and host answer, and no
\* conflicting borrow on a matched handle, invoke_signed and
\* invoke_signed_unchecked issue the same boundary call and return the same
\* result.
C3_CheckedEqualsUnchecked ==
    \A a \in Checked, b \in Unchecked :
        (a.seeds = b.seeds /\ a.host = b.host /\ NoConflictingBorrow(a.borrowsBefore))
        => /\ a.result = b.result
           /\ Len(a.boundary) = Len(b.boundary)
           /\ \A k \in DOMAIN a.boundary : CallArgs(a.boundary[k]) = CallArgs(b.boundary[k])

C3_Witness ==
    \E a \in Checked, b \in Unchecked :
        /\ a.seeds = b.seeds /\ a.seeds # <<>> /\ a.host = b.host /\ a.host # SUCCESS
        /\ NoConflictingBorrow(a.borrowsBefore)
        /\ \E c \in CellIds : a.borrowsBefore[c].lamports > 0
        /\ Len(a.probes) > 0
        /\ Dispatched(a) /\ Dispatched(b)

\* C4: for any Instruction, buffers that never allocated included, the
\* stabilizer does not panic and each view has the length, the address and
\* the capacity of the buffer it was taken from.
C4_ViewsAreTheBuffers ==
    \A r \in Unchecked :
        /\ r.result # Panicked
        /\ Dispatched(r)
        /\ LET si == r.boundary[1].stabilized
               value == InstructionValue(instruction, heap)
           IN  /\ si.accounts.len = Len(value.accounts.elems)
               /\ si.data.len = Len(value.data.elems)
               /\ si.accounts.ptr = instruction.accounts.ptr
               /\ si.data.ptr = instruction.data.ptr
               /\ si.accounts.cap = instruction.accounts.cap
               /\ si.data.cap = instruction.data.cap

C4_Witness ==
    /\ Unchecked # {}
    /\ instruction.accounts.cap = 0 /\ instruction.data.cap = 0
    /\ \E r \in Unchecked : Dispatched(r) /\ r.boundary[1].stabilized.accounts.ptr # 0

\* the field positions as documented: identity, accounts view, data view
DecodeDocumented(words) ==
    [program_id |-> SubSeq(words, 1, 4),
     accounts |-> [ptr |-> words[5], cap |-> words[6], len |-> words[7]],
     data |-> [ptr |-> words[8], cap |-> words[9], len |-> words[10]]]

\* the field positions of the host ABI: accounts view, data view, identity
DecodeAbi(words) ==
    [accounts |-> [ptr |-> words[1], cap |-> words[2], len |-> words[3]],
     data |-> [ptr |-> words[4], cap |-> words[5], len |-> words[6]],
     program_id |-> SubSeq(words, 7, 10)]

RoundTrips(decoded) ==
    LET value == InstructionValue(instruction, heap)
    IN  /\ decoded.program_id = value.program_id
        /\ decoded.accounts.len = Len(value.accounts.elems)
        /\ decoded.data.len = Len(value.data.elems)

\* C5 as stated: reading the layout with the target identity first, then the
\* accounts view (pointer, capacity, length), then the data view, gives back
\* the instruction's target, account count and data length.
C5_IdentityFirst ==
    \A r \in Unchecked : \A k \in DOMAIN r.boundary :
        RoundTrips(DecodeDocumented(r.boundary[k].instruction))

\* C5 amended: reading the layout with the accounts view (pointer, capacity,
\* length) first, then the data view (pointer, capacity, length), then the
\* target identity, gives back the instruction's target, account count and
\* data length.
C5_IdentityLast ==
    \A r \in Unchecked : \A k \in DOMAIN r.boundary :
        RoundTrips(DecodeAbi(r.boundary[k].instruction))

C5_Witness ==
    \E r \in Unchecked :
        /\ Dispatched(r)
        /\ Len(Metas) = 2
        /\ DecodeAbi(r.boundary[1].instruction).data.len = Len(TransferData)
        /\ DecodeAbi(r.boundary[1].instruction).program_id = OtherProgramId

\* C6: no step, and so no stabilization and no call through either path,
\* changes the Instruction: its target, its accounts and its data read the
\* same afterwards.
C6_InstructionUnchanged ==
    [][/\ instruction' = instruction
       /\ InstructionValue(instruction', heap') = InstructionValue(instruction, heap)]_vars

C6_Witness ==
    /\ \E a \in Checked, b \in Unchecked : a.result.ok /\ b.result.ok
    /\ successes = MaxCalls
    /\ instruction.accounts.cap > 0 /\ instruction.data.cap > 0
    /\ InstructionValue(instruction, heap).accounts.live
    /\ Len(Metas) = 2

\* C7: a call that returns success has issued exactly one boundary call, and
\* after k successful calls of the 1-lamport transfer, in any mix of the
\* three entry points, the sender has its original balance minus k.
C7_OncePerCall ==
    /\ \A r \in Records : r.result.ok => Dispatched(r)
    /\ IsTransfer(InstructionValue(instruction, heap))
          => /\ balance[KeyA] = OriginalBalance - successes * TransferLamports
             /\ balance[KeyB] = OriginalBalance + successes * TransferLamports

C7_Witness ==
    /\ IsTransfer(InstructionValue(instruction, heap))
    /\ successes = 3
    /\ balance[KeyA] = OriginalBalance - 3
    /\ prev # <<>> /\ last # <<>>
    /\ prev[1].path = "checked" /\ prev[1].result.ok
    /\ last[1].path = "unchecked" /\ last[1].result.ok

\* C8: the checker holds no borrow: every probe starts from the borrow state
\* the call found, the boundary call is issued in that state, and the call
\* leaves that state behind whether it succeeds or fails.
C8_ProbeHoldsNothing ==
    \A r \in Checked :
        /\ r.borrowsAfter = r.borrowsBefore
        /\ \A k \in DOMAIN r.probes : r.probes[k].borrows = r.borrowsBefore
        /\ \A k \in DOMAIN r.boundary : r.boundary[k].borrows = r.borrowsBefore

C8_Witness ==
    \E r \in Checked :
        /\ Len(r.probes) = 2
        /\ Dispatched(r)
        /\ \E c \in CellIds : r.borrowsBefore[c].lamports > 0
        /\ \E k \in DOMAIN r.probes : Metas[r.probes[k].meta].is_writable

\* C9: a writable AccountMeta makes the checker fail when its handle has any
\* borrow outstanding on lamports or data; a non-writable one makes it fail
\* when its handle has an exclusive borrow outstanding; and the checker fails
\* for no other reason, so shared borrows alone pass a non-writable one.
C9_AccessByWritable ==
    \A r \in Checked :
        /\ \A i \in DOMAIN Metas :
              LET j == FirstMatch(Metas[i])
              IN  j # 0 =>
                    /\ (Metas[i].is_writable /\ HeldAny(r.borrowsBefore, account_infos[j]))
                          => PreconditionConflict(r)
                    /\ (~Metas[i].is_writable /\ HeldExclusive(r.borrowsBefore, account_infos[j]))
                          => PreconditionConflict(r)
        /\ PreconditionConflict(r)
              => \E i \in DOMAIN Metas :
                    /\ FirstMatch(Metas[i]) # 0
                    /\ Conflict(Metas[i], account_infos[FirstMatch(Metas[i])], r.borrowsBefore)

C9_Witness ==
    \E r \in Checked :
        /\ Dispatched(r)
        /\ \E i \in DOMAIN Metas :
              /\ ~Metas[i].is_writable
              /\ FirstMatch(Metas[i]) # 0
              /\ r.borrowsBefore[account_infos[FirstMatch(Metas[i])].cell].lamports > 0
              /\ r.borrowsBefore[account_infos[FirstMatch(Metas[i])].cell].data > 0

\* C10: each AccountMeta is probed on at most one handle, the first in
\* supplied order with its address; one without a matching handle is not
\* probed; and when no first match has a conflicting borrow the call is
\* dispatched, whatever is borrowed on later handles with the same address.
C10_FirstMatchOnly ==
    \A r \in Checked :
        /\ \A k \in DOMAIN r.probes :
              /\ r.probes[k].meta \in DOMAIN Metas
              /\ r.probes[k].info # 0
              /\ r.probes[k].info = FirstMatch(Metas[r.probes[k].meta])
        /\ \A k1, k2 \in DOMAIN r.probes :
              r.probes[k1].meta = r.probes[k2].meta => k1 = k2
        /\ (\A i \in DOMAIN Metas :
               \/ FirstMatch(Metas[i]) = 0
               \/ ~Conflict(Metas[i], account_infos[FirstMatch(Metas[i])], r.borrowsBefore))
           => Dispatched(r)

C10_Witness ==
    \E r \in Checked :
        /\ Dispatched(r)
        /\ \E i \in DOMAIN Metas : FirstMatch(Metas[i]) = 0
        /\ \E i \in DOMAIN Metas, j \in DOMAIN account_infos :
              /\ FirstMatch(Metas[i]) # 0
              /\ j > FirstMatch(Metas[i])
              /\ account_infos[j].key = Metas[i].pubkey
              /\ Conflict(Metas[i], account_infos[j], r.borrowsBefore)

====
